---- MODULE Spec2Model ----
(***************************************************************************)
(* Zandronum RCON client (rcon_client.py): the session state machine of    *)
(* RCONClient driven by main(), with its two threads of control: the       *)
(* caller (main thread: connect, command loop, disconnect in `finally`)    *)
(* and the listener (listen_loop, started by connect).                     *)
(*                                                                         *)
(* Conventions.                                                            *)
(*  - A byte string is a sequence of integers 0..255; a str is a sequence  *)
(*    of code points.                                                      *)
(*  - `sent` records, in order, every datagram handed to socket.sendto     *)
(*    while the socket was open.  sendto on a closed socket raises before  *)
(*    anything is handed over and records nothing.  sendto on an open      *)
(*    socket may still raise OSError (the "fail" outcome).                 *)
(*  - A datagram on the wire is never empty, so <<>> stands for "none".     *)
(*  - `out` records what handle_packet prints.                             *)
(*  - The listener is a daemon thread; the end of the process when main()  *)
(*    returns is not modelled, so the listener may take steps after the    *)
(*    caller is done.  The caller may call disconnect() again after it     *)
(*    returned (DisconnectAgain), as a user of the class may.              *)
(*  - Ctrl+C is taken in connect() and in the command loop, not inside     *)
(*    disconnect().                                                        *)
(*  - Statements of one thread interleave with those of the other at       *)
(*    statement granularity: Python gives no atomicity to the test and     *)
(*    the assignment of self.running.                                      *)
(***************************************************************************)
EXTENDS Integers, Sequences, FiniteSets, TLC

VARIABLES
    running,        \* self.running
    socket,         \* self.socket: "open" | "closed"
    pc,             \* position of each thread
    sent,           \* datagrams handed to sendto, in order
    first,          \* the datagram connect() received: <<>> while none
    nrecv,          \* datagrams returned by recvfrom so far
    out,            \* lines printed by handle_packet
    buf,            \* the listener's datagram between recvfrom and dispatch
    connectResult,  \* how connect() ended: "none" while it has not
    calls,          \* per thread: disconnect() calls begun
    dsend,          \* per thread: outcome of its latest sendto of Disconnect
    fatal,          \* the listener's except clauses entered (lines 217-225)
    ntimeouts,      \* receive timeouts taken by the listener
    ncmds,          \* commands typed by the user
    fin,            \* framing: the [opcode, payload] packet to build
    fwire,          \* framing: its encoding, <<>> while not built
    fout            \* framing: the decoded and split packet

\* The state of the framing round trip.
fvars == <<fin, fwire, fout>>

vars == <<running, socket, pc, sent, first, nrecv, out, buf, connectResult,
          calls, dsend, fatal, ntimeouts, ncmds, fvars>>

\* ------------------------------------------------------------------ bounds
MaxRecv == 2
MaxTimeouts == 1
MaxCmds == 1
MaxDisconnectCalls == 2
MaxPayload == 2

Threads == {"main", "listener"}

\* ------------------------------------------------------- headers (imported)
\* Server-to-client opcodes.
svrc ==
    [OldProtocol |-> 32, Banned |-> 33, Salt |-> 34, LoggedIn |-> 35,
     InvalidPassword |-> 36, Message |-> 37, Update |-> 38,
     TabComplete |-> 39, TooManyTabCompletes |-> 40]

\* Server-to-client unreliable/broadcast opcodes.
svrcu == [PlayerData |-> 0, AdminCount |-> 1, Map |-> 2]

svrcu_values == {svrcu.PlayerData, svrcu.AdminCount, svrcu.Map}

\* Client-to-server opcodes.
clrc ==
    [BeginConnection |-> 52, Password |-> 53, Command |-> 54, Pong |-> 55,
     Disconnect |-> 56]

protocol_ver == 4

\* The configured password, as code points ("pw").
RCON_PASSWORD == <<112, 119>>

\* ------------------------------------------------------------- byte helpers
Min(a, b) == IF a < b THEN a ELSE b

\* data[:n]
Prefix(data, n) == SubSeq(data, 1, Min(n, Len(data)))

\* data[1:]
Rest(data) == SubSeq(data, 2, Len(data))

\* str.encode(): UTF-8 of a sequence of code points below 0x800.
RECURSIVE str_encode(_)
str_encode(s) ==
    IF s = <<>> THEN <<>>
    ELSE LET c == Head(s)
         IN  (IF c < 128 THEN <<c>>
              ELSE <<192 + (c \div 64), 128 + (c % 64)>>) \o str_encode(Tail(s))

\* hashlib.md5(m).hexdigest().encode(): a collision-free symbolic digest.  The
\* digest of m is m under a marker no byte equals, so two digests are equal
\* exactly when their preimages are.
md5_hexdigest(m) == <<256>> \o m

\* ------------------------------------------------------------------- codec
\* huffman.HuffmanObject.encode / decode: an exact inverse pair that is not
\* the identity (stored mode: a marker byte, then the bytes).
H_encode(b) == <<255>> \o b

CorruptStream == <<-1>>

H_decode(p) == IF p # <<>> /\ p[1] = 255 THEN Tail(p) ELSE CorruptStream

\* Packet elements: [t |-> "int" | "str" | "bytes", v |-> value].
IntItem(n) == [t |-> "int", v |-> n]
StrItem(s) == [t |-> "str", v |-> s]
BytesItem(b) == [t |-> "bytes", v |-> b]

\* Mutant of item_bytes: text is written with a terminating zero byte.
item_bytes_terminated(item) ==
    CASE item.t = "bytes" -> item.v
      [] item.t = "str" -> str_encode(item.v) \o <<0>>
      [] item.t = "int" -> <<item.v>>

\* Lines 116-121: what one field of a packet writes: bytes as they are, str
\* as item.encode(), int as bytes([item]).
item_bytes(item) ==
    CASE item.t = "bytes" -> item.v
      [] item.t = "str" -> str_encode(item.v)
      [] item.t = "int" -> <<item.v>>

\* RCONClient.encode, the BytesIO part: the fields left to right.
RECURSIVE frame(_)
frame(seq) ==
    IF seq = <<>> THEN <<>>
    ELSE item_bytes(Head(seq)) \o frame(Tail(seq))

\* RCONClient.encode
encode(seq) == H_encode(frame(seq))

\* RCONClient.decode
decode(packet) == H_decode(packet)

\* -------------------------------------------------------------- the packets
\* Line 185: the encoded BeginConnection packet.
BeginConnectionPacket == encode(<<IntItem(clrc.BeginConnection), IntItem(protocol_ver)>>)

\* Mutant of SaltOf: the whole payload is taken as the salt.
SaltOfUntruncated(packet_data) == packet_data

\* salt = packet_data[:32]
SaltOf(packet_data) == Prefix(packet_data, 32)

\* Mutant of Token: the password digested before the salt.
TokenPasswordFirst(packet_data, password) ==
    md5_hexdigest(str_encode(password) \o SaltOf(packet_data))

\* md5 = hashlib.md5(salt + self.rcon_password.encode()).hexdigest()
Token(packet_data, password) ==
    md5_hexdigest(SaltOf(packet_data) \o str_encode(password))

PasswordParts(packet_data, password) ==
    <<IntItem(clrc.Password), BytesItem(Token(packet_data, password))>>

\* ---------------------------------------------------------- handle_packet
\* What handle_packet(packet_id, packet_data) does before any send_packet of
\* its own can fail: the exception it raises ("none" when it raises none), the
\* send_packet arguments it issues, and the lines it prints.
\* Mutant of IgnoredPacket: the packet is echoed on the console.
IgnoredPacketEchoed ==
    [raise |-> "none", send |-> <<>>,
     print |-> <<[kind |-> "message", data |-> <<>>]>>]

\* Lines 160-165: Update, TabComplete and TooManyTabCompletes are `pass`.
IgnoredPacket == [raise |-> "none", send |-> <<>>, print |-> <<>>]

\* Mutant of UnknownPacket: an unknown opcode is an error.
UnknownPacketRaises(packet_id) ==
    [raise |-> "unknown_packet", send |-> <<>>, print |-> <<>>]

\* Lines 173-174: any other opcode prints "Unknown packet: <id>".
UnknownPacket(packet_id) ==
    [raise |-> "none", send |-> <<>>,
     print |-> <<[kind |-> "unknown", data |-> <<packet_id>>]>>]

handle_packet(packet_id, packet_data) ==
    CASE packet_id = svrc.OldProtocol ->
            [raise |-> "old_protocol", send |-> <<>>, print |-> <<>>]
      [] packet_id = svrc.Banned ->
            [raise |-> "banned", send |-> <<>>, print |-> <<>>]
      [] packet_id = svrc.Salt ->
            [raise |-> "none",
             send |-> <<PasswordParts(packet_data, RCON_PASSWORD)>>,
             print |-> <<>>]
      [] packet_id = svrc.LoggedIn ->
            [raise |-> "none", send |-> <<>>,
             print |-> <<[kind |-> "logged_in", data |-> <<>>]>>]
      [] packet_id = svrc.InvalidPassword ->
            [raise |-> "invalid_password", send |-> <<>>, print |-> <<>>]
      [] packet_id = svrc.Message ->
            [raise |-> "none", send |-> <<>>,
             print |-> <<[kind |-> "message", data |-> packet_data]>>]
      [] packet_id = svrc.Update -> IgnoredPacket
      [] packet_id = svrc.TabComplete -> IgnoredPacket
      [] packet_id = svrc.TooManyTabCompletes -> IgnoredPacket
      [] packet_id \in svrcu_values ->
            [raise |-> "none", send |-> <<>>,
             print |-> <<[kind |-> "message", data |-> packet_data]>>]
      [] OTHER -> UnknownPacket(packet_id)

\* ------------------------------------------------------------ send_packet
\* What socket.sendto can do: on an open socket it hands the datagram over and
\* either returns or raises OSError; on a closed socket it raises at once.
SendOutcomes(sock) == IF sock = "open" THEN {"ok", "fail"} ELSE {"closed"}

\* send_packet(parts) with sendto's outcome o: the log of datagrams after it.
send_packet(log, parts, o) ==
    IF o = "closed" THEN log ELSE Append(log, encode(parts))

\* The exception send_packet raises under outcome o.
send_raises(o) == IF o = "ok" THEN "none" ELSE "oserror"

\* --------------------------------------------- decode, split and dispatch
\* Mutant of split: an empty buffer is taken as opcode 0 with no payload.
split_padded(data) ==
    IF data = <<>>
    THEN [err |-> "none", packet_id |-> 0, packet_data |-> <<>>]
    ELSE [err |-> "none", packet_id |-> data[1], packet_data |-> Rest(data)]

\* Lines 196-197 of connect and 210-211 of listen_loop: packet_id = data[0],
\* packet_data = data[1:].  data[0] of an empty buffer raises IndexError.
split(data) ==
    IF data = <<>>
    THEN [err |-> "index_error", packet_id |-> 0, packet_data |-> <<>>]
    ELSE [err |-> "none", packet_id |-> data[1], packet_data |-> Rest(data)]

\* Lines 195-197 of connect and 209-211 of listen_loop: decode the datagram,
\* take its first byte as the opcode, hand the rest to handle_packet.  The
\* result is the exception that leaves these lines ("none" when none does),
\* the log of sent datagrams and the printed lines afterwards.
Dispatch(raw, o) ==
    LET data == decode(raw)
    IN  IF data = CorruptStream THEN
            [err |-> "corrupt_stream", sent |-> sent, out |-> out]
        ELSE IF split(data).err # "none" THEN
            [err |-> split(data).err, sent |-> sent, out |-> out]
        ELSE LET h == handle_packet(split(data).packet_id,
                                    split(data).packet_data)
             IN  IF h.raise # "none" THEN
                     [err |-> h.raise, sent |-> sent, out |-> out]
                 ELSE IF h.send # <<>> THEN
                     [err |-> send_raises(o),
                      sent |-> send_packet(sent, h.send[1], o),
                      out |-> out \o h.print]
                 ELSE [err |-> "none", sent |-> sent, out |-> out \o h.print]

\* ------------------------------------------------------------- the peer
Salt32 == [i \in 1..32 |-> 7]

\* The decoded buffers the peer may send.
ServerBuffers ==
    { <<svrc.Salt>> \o Salt32,
      <<svrc.Salt>> \o Salt32 \o <<9>>,
      <<svrc.LoggedIn>>,
      <<svrc.InvalidPassword>>,
      <<svrc.OldProtocol>>,
      <<svrc.Banned>>,
      <<svrc.Message, 72>>,
      <<svrc.Update>>,
      <<svrc.TabComplete>>,
      <<svrc.TooManyTabCompletes>>,
      <<svrcu.Map, 77>>,
      <<99>>,
      <<>> }

\* The datagrams recvfrom may return: the encoded buffers, and one datagram
\* that is no encoding of anything.
Inbound == { H_encode(b) : b \in ServerBuffers } \cup { <<0>> }

\* The command lines the user may type, as code points ("h" and U+00E9).
Commands == { <<104, 233>> }

\* ------------------------------------------------------------------- Init
\* RCONClient.__init__ and the start of main().
NewClient ==
    /\ running = FALSE
    /\ socket = "open"
    /\ pc = [t \in Threads |-> IF t = "main" THEN "start" ELSE "none"]
    /\ sent = <<>>
    /\ first = <<>>
    /\ nrecv = 0
    /\ out = <<>>
    /\ buf = <<>>
    /\ connectResult = "none"
    /\ calls = [t \in Threads |-> 0]
    /\ dsend = [t \in Threads |-> "none"]
    /\ fatal = "none"
    /\ ntimeouts = 0
    /\ ncmds = 0

\* No packet is being framed.
NoPacket == [opcode |-> 0, payload |-> BytesItem(<<>>)]

\* No packet has been split yet.
NoResult == [err |-> "pending", packet_id |-> 0, packet_data |-> <<>>]

Init ==
    /\ NewClient
    /\ fin = NoPacket
    /\ fwire = <<>>
    /\ fout = NoResult

\* ---------------------------------------------------------------- connect
\* Lines 185-186: encode and send BeginConnection.  A raising sendto leaves
\* connect() with OSError; main() then runs its `finally`.
ConnectSend ==
    /\ pc["main"] = "start"
    /\ \E o \in SendOutcomes(socket) :
          /\ sent' = send_packet(sent, <<IntItem(clrc.BeginConnection),
                                         IntItem(protocol_ver)>>, o)
          /\ IF send_raises(o) = "none"
             THEN /\ pc' = [pc EXCEPT !["main"] = "c_recv"]
                  /\ UNCHANGED connectResult
             ELSE /\ pc' = [pc EXCEPT !["main"] = "d_test"]
                  /\ connectResult' = send_raises(o)
    /\ UNCHANGED fvars
    /\ UNCHANGED <<running, socket, first, nrecv, out, buf, calls, dsend,
                   fatal, ntimeouts, ncmds>>

\* Mutant of OnConnectTimeout: BeginConnection is sent again.
OnConnectTimeoutResend(log) == Append(log, BeginConnectionPacket)

\* What connect() sends when its recvfrom times out: nothing (lines 190-191).
OnConnectTimeout(log) == log

\* Lines 188-191: recvfrom times out; connect() raises "Connection timed out."
ConnectTimeout ==
    /\ pc["main"] = "c_recv"
    /\ sent' = OnConnectTimeout(sent)
    /\ connectResult' = "timed_out"
    /\ pc' = [pc EXCEPT !["main"] = "d_test"]
    /\ UNCHANGED fvars
    /\ UNCHANGED <<running, socket, first, nrecv, out, buf, calls, dsend,
                   fatal, ntimeouts, ncmds>>

\* Whether connect() goes on to lines 199-200 after dispatching the first
\* reply: it does whenever lines 195-197 raised nothing.
ConnectEstablishes(err) == err = "none"

\* Lines 188-200: the first reply arrives, is decoded and dispatched; if that
\* raises, connect() raises; otherwise running is set and the listener
\* started.
ConnectReply ==
    /\ pc["main"] = "c_recv"
    /\ \E raw \in Inbound, o \in SendOutcomes(socket) :
          LET d == Dispatch(raw, o)
          IN  /\ first' = raw
              /\ nrecv' = nrecv + 1
              /\ sent' = d.sent
              /\ out' = d.out
              /\ IF ConnectEstablishes(d.err)
                 THEN /\ running' = TRUE
                      /\ pc' = [main |-> "cmd", listener |-> "loop"]
                      /\ connectResult' = "ok"
                 ELSE /\ running' = running
                      /\ pc' = [pc EXCEPT !["main"] = "d_test"]
                      /\ connectResult' = d.err
    /\ UNCHANGED fvars
    /\ UNCHANGED <<socket, buf, calls, dsend, fatal, ntimeouts, ncmds>>

\* ------------------------------------------------------------------- main
\* Lines 269-273: a command line is read and sent.  An exception of
\* send_packet leaves the loop through `except Exception` to `finally`.
SendCommand ==
    /\ pc["main"] = "cmd"
    /\ ncmds < MaxCmds
    /\ \E cmd \in Commands, o \in SendOutcomes(socket) :
          /\ sent' = send_packet(sent, <<IntItem(clrc.Command), StrItem(cmd)>>, o)
          /\ pc' = [pc EXCEPT !["main"] =
                        IF send_raises(o) = "none" THEN "cmd" ELSE "d_test"]
    /\ ncmds' = ncmds + 1
    /\ UNCHANGED fvars
    /\ UNCHANGED <<running, socket, first, nrecv, out, buf, connectResult,
                   calls, dsend, fatal, ntimeouts>>

\* Lines 278-286: end of input (EOFError) or Ctrl+C (KeyboardInterrupt) while
\* main() is in connect() or in the command loop: on to `finally`.
LeaveMain ==
    /\ pc["main"] \in {"start", "c_recv", "cmd"}
    /\ pc' = [pc EXCEPT !["main"] = "d_test"]
    /\ connectResult' = IF connectResult = "none" THEN "interrupted"
                        ELSE connectResult
    /\ UNCHANGED fvars
    /\ UNCHANGED <<running, socket, sent, first, nrecv, out, buf, calls,
                   dsend, fatal, ntimeouts, ncmds>>

\* ------------------------------------------------------------- disconnect
\* Mutant of DisconnectGuard: the Disconnect branch is always taken.
DisconnectGuardAlways(r) == TRUE

\* Line 234: the Disconnect branch is taken when self.running is true.
DisconnectGuard(r) == r

\* Mutant of ClearedRunning: the flag is left set.
KeptRunning == TRUE

\* Line 235: the value disconnect() stores in self.running.
ClearedRunning == FALSE

\* Mutant of except_pass: no handler, the exception leaves the statement.
except_reraise(exc) == exc

\* Lines 236-239 and 240-243, `except: pass`: the exception that leaves the
\* try statement when its body raised exc.
except_pass(exc) == "none"

\* Line 234: if self.running.
DisconnectTest(t) ==
    /\ pc[t] = "d_test"
    /\ calls' = [calls EXCEPT ![t] = @ + 1]
    /\ pc' = [pc EXCEPT ![t] =
                 IF DisconnectGuard(running) THEN "d_clear" ELSE "d_close"]
    /\ UNCHANGED fvars
    /\ UNCHANGED <<running, socket, sent, first, nrecv, out, buf,
                   connectResult, dsend, fatal, ntimeouts, ncmds>>

\* Line 235: self.running = False.
DisconnectClear(t) ==
    /\ pc[t] = "d_clear"
    /\ running' = ClearedRunning
    /\ pc' = [pc EXCEPT ![t] = "d_send"]
    /\ UNCHANGED fvars
    /\ UNCHANGED <<socket, sent, first, nrecv, out, buf, connectResult,
                   calls, dsend, fatal, ntimeouts, ncmds>>

\* Lines 236-239: try: send_packet((Disconnect,)) except: pass.
DisconnectSend(t) ==
    /\ pc[t] = "d_send"
    /\ \E o \in SendOutcomes(socket) :
          /\ sent' = send_packet(sent, <<IntItem(clrc.Disconnect)>>, o)
          /\ dsend' = [dsend EXCEPT ![t] = o]
          /\ pc' = [pc EXCEPT ![t] =
                       IF except_pass(send_raises(o)) = "none"
                       THEN "d_close" ELSE "raised"]
    /\ UNCHANGED fvars
    /\ UNCHANGED <<running, socket, first, nrecv, out, buf, connectResult,
                   calls, fatal, ntimeouts, ncmds>>

\* Lines 240-244: try: socket.close() except: pass; print; return.
DisconnectClose(t) ==
    /\ pc[t] = "d_close"
    /\ socket' = "closed"
    /\ pc' = [pc EXCEPT ![t] = "done"]
    /\ UNCHANGED fvars
    /\ UNCHANGED <<running, sent, first, nrecv, out, buf, connectResult,
                   calls, dsend, fatal, ntimeouts, ncmds>>

\* The caller calls disconnect() once more after it returned.
DisconnectAgain ==
    /\ pc["main"] = "done"
    /\ calls["main"] < MaxDisconnectCalls
    /\ pc' = [pc EXCEPT !["main"] = "d_test"]
    /\ UNCHANGED fvars
    /\ UNCHANGED <<running, socket, sent, first, nrecv, out, buf,
                   connectResult, calls, dsend, fatal, ntimeouts, ncmds>>

\* ------------------------------------------------------------ listen_loop
\* The condition of the listener's loop (line 206): self.running.
LoopCondition(r) == r

\* Line 206: while self.running.
LoopTest ==
    /\ pc["listener"] = "loop"
    /\ pc' = [pc EXCEPT !["listener"] =
                 IF LoopCondition(running) THEN "recv_call" ELSE "done"]
    /\ UNCHANGED fvars
    /\ UNCHANGED <<running, socket, sent, first, nrecv, out, buf,
                   connectResult, calls, dsend, fatal, ntimeouts, ncmds>>

\* Mutant of AfterFatal: the except clause continues the loop.
AfterFatalContinue == "loop"

\* Where the listener goes from an except clause of lines 217-225: it calls
\* disconnect() (and breaks when that returns).
AfterFatal == "d_test"

\* Line 208: recvfrom is called.  On a closed socket it raises OSError at
\* once, which `except Exception` catches; otherwise the thread blocks.
RecvCall ==
    /\ pc["listener"] = "recv_call"
    /\ IF socket = "closed"
       THEN /\ fatal' = "oserror"
            /\ pc' = [pc EXCEPT !["listener"] = AfterFatal]
       ELSE /\ fatal' = fatal
            /\ pc' = [pc EXCEPT !["listener"] = "blocked"]
    /\ UNCHANGED fvars
    /\ UNCHANGED <<running, socket, sent, first, nrecv, out, buf,
                   connectResult, calls, dsend, ntimeouts, ncmds>>

\* Line 208: recvfrom returns a datagram.
RecvDatagram ==
    /\ pc["listener"] = "blocked"
    /\ socket = "open"
    /\ nrecv < MaxRecv
    /\ \E raw \in Inbound : buf' = raw
    /\ nrecv' = nrecv + 1
    /\ pc' = [pc EXCEPT !["listener"] = "dispatch"]
    /\ UNCHANGED fvars
    /\ UNCHANGED <<running, socket, sent, first, out, connectResult, calls, dsend,
                   fatal, ntimeouts, ncmds>>

\* Lines 208, 213: recvfrom raises socket.timeout.  A socket closed by the
\* other thread while this one is blocked may leave the wait running to its
\* timeout.
RecvTimeout ==
    /\ pc["listener"] = "blocked"
    /\ ntimeouts < MaxTimeouts
    /\ ntimeouts' = ntimeouts + 1
    /\ pc' = [pc EXCEPT !["listener"] = "pong"]
    /\ UNCHANGED fvars
    /\ UNCHANGED <<running, socket, sent, first, nrecv, out, buf,
                   connectResult, calls, dsend, fatal, ncmds>>

\* Lines 208, 222: the socket was closed by the other thread while this one
\* was blocked, and recvfrom raises OSError.
RecvError ==
    /\ pc["listener"] = "blocked"
    /\ socket = "closed"
    /\ fatal' = "oserror"
    /\ pc' = [pc EXCEPT !["listener"] = AfterFatal]
    /\ UNCHANGED fvars
    /\ UNCHANGED <<running, socket, sent, first, nrecv, out, buf,
                   connectResult, calls, dsend, ntimeouts, ncmds>>

\* Lines 209-211 and 217-225: decode, split, dispatch; an exception is caught
\* by one of the two except clauses, which call disconnect() and break.
DispatchPacket ==
    /\ pc["listener"] = "dispatch"
    /\ \E o \in SendOutcomes(socket) :
          LET d == Dispatch(buf, o)
          IN  /\ sent' = d.sent
              /\ out' = d.out
              /\ IF d.err = "none"
                 THEN /\ fatal' = fatal
                      /\ pc' = [pc EXCEPT !["listener"] = "loop"]
                 ELSE /\ fatal' = d.err
                      /\ pc' = [pc EXCEPT !["listener"] = AfterFatal]
    /\ buf' = <<>>
    /\ UNCHANGED fvars
    /\ UNCHANGED <<running, socket, first, nrecv, connectResult, calls,
                   dsend, ntimeouts, ncmds>>

\* Lines 213-215: send Pong and continue.  An exception of send_packet is
\* raised inside the except clause, so no clause of this try catches it: it
\* ends the thread.
SendPong ==
    /\ pc["listener"] = "pong"
    /\ \E o \in SendOutcomes(socket) :
          /\ sent' = send_packet(sent, <<IntItem(clrc.Pong)>>, o)
          /\ pc' = [pc EXCEPT !["listener"] =
                       IF send_raises(o) = "none" THEN "loop" ELSE "dead"]
    /\ UNCHANGED fvars
    /\ UNCHANGED <<running, socket, first, nrecv, out, buf, connectResult,
                   calls, dsend, fatal, ntimeouts, ncmds>>

\* ------------------------------------------------------------------- Next
Next ==
    \/ ConnectSend
    \/ ConnectTimeout
    \/ ConnectReply
    \/ SendCommand
    \/ LeaveMain
    \/ DisconnectAgain
    \/ \E t \in Threads : DisconnectTest(t)
    \/ \E t \in Threads : DisconnectClear(t)
    \/ \E t \in Threads : DisconnectSend(t)
    \/ \E t \in Threads : DisconnectClose(t)
    \/ LoopTest
    \/ RecvCall
    \/ RecvDatagram
    \/ RecvTimeout
    \/ RecvError
    \/ DispatchPacket
    \/ SendPong

Spec == Init /\ [][Next]_vars

\* ------------------------------------------------------ framing round trip
\* The opcode bytes tried: the extremes of a byte and two client opcodes.
FrameOpcodes == {0, clrc.BeginConnection, clrc.Command, 255}

\* Sequences over S of length at most n.
SeqsUpTo(S, n) == UNION { [1..k -> S] : k \in 0..n }

\* The payloads tried: raw bytes, and text with an ASCII and a non-ASCII
\* character ("h", U+00E9), of every length up to MaxPayload.
FramePayloads ==
    { BytesItem(b) : b \in SeqsUpTo({0, 255}, MaxPayload) }
        \cup { StrItem(t) : t \in SeqsUpTo({104, 233}, MaxPayload) }

FrameInit ==
    /\ NewClient
    /\ fin \in [opcode : FrameOpcodes, payload : FramePayloads]
    /\ fwire = <<>>
    /\ fout = NoResult

\* RCONClient.encode((opcode, payload)), as send_packet calls it.
BuildOutgoing ==
    /\ fwire = <<>>
    /\ fwire' = encode(<<IntItem(fin.opcode), fin.payload>>)
    /\ UNCHANGED <<running, socket, pc, sent, first, nrecv, out, buf,
                   connectResult, calls, dsend, fatal, ntimeouts, ncmds,
                   fin, fout>>

\* Lines 195-197 and 209-211: decode the datagram and split it.
ParseIncoming ==
    /\ fwire # <<>>
    /\ fout = NoResult
    /\ fout' = IF decode(fwire) = CorruptStream
               THEN [err |-> "corrupt_stream", packet_id |-> 0,
                     packet_data |-> <<>>]
               ELSE split(decode(fwire))
    /\ UNCHANGED <<running, socket, pc, sent, first, nrecv, out, buf,
                   connectResult, calls, dsend, fatal, ntimeouts, ncmds,
                   fin, fwire>>

FrameNext == BuildOutgoing \/ ParseIncoming

FrameSpec == FrameInit /\ [][FrameNext]_vars

\* ================================================================ claims
\* The opcode of a sent datagram.
OpcodeOf(d) == decode(d)[1]

\* How many datagrams of the log carry opcode op.
Count(log, op) == Cardinality({ i \in 1..Len(log) : OpcodeOf(log[i]) = op })

Printed(kind) == \E i \in 1..Len(out) : out[i].kind = kind

InDisconnect(t) == pc[t] \in {"d_clear", "d_send", "d_close"}

\* disconnect() calls of thread t that returned normally.
Returned(t) == calls[t] - (IF InDisconnect(t) \/ pc[t] = "raised" THEN 1 ELSE 0)

FirstIsSalt == first # <<>> /\ decode(first) # <<>> /\ decode(first)[1] = svrc.Salt

LoggedInLine == [kind |-> "logged_in", data |-> <<>>]

\* The peer has replied Salt, and after it nothing or LoggedIn.
ScriptedPeer ==
    /\ FirstIsSalt
    /\ connectResult = "ok"
    /\ \/ nrecv = 1 /\ out = <<>>
       \/ nrecv = 2 /\ buf = H_encode(<<svrc.LoggedIn>>) /\ out = <<>>
       \/ nrecv = 2 /\ buf = <<>> /\ out = <<LoggedInLine>>

\* The token the server expects for the salt of the first reply: the digest
\* of its 32 bytes followed by the password's bytes "pw".
ExpectedToken == md5_hexdigest(SubSeq(decode(first), 2, 33) \o <<112, 119>>)

\* C1: with a peer that replies Salt (32 bytes) and then LoggedIn, connect()
\* returns with the session running and its listener started, the first
\* datagram sent is BeginConnection, and exactly one Password datagram has
\* been sent, carrying the digest of the salt followed by the password.
C1_HappyPath ==
    ScriptedPeer =>
        /\ pc["listener"] # "none"
        /\ (calls["main"] = 0 /\ calls["listener"] = 0
               => running /\ socket = "open")
        /\ sent[1] = <<255, clrc.BeginConnection, protocol_ver>>
        /\ sent[2] = <<255, clrc.Password>> \o ExpectedToken
        /\ Count(sent, clrc.Password) = 1

C1_Witness ==
    /\ ScriptedPeer
    /\ out = <<LoggedInLine>>
    /\ running
    /\ pc["listener"] = "recv_call"
    /\ pc["main"] = "cmd"

\* C2: InvalidPassword received before the login was confirmed, as the first
\* reply or after the Salt/Password exchange, makes connect() fail with the
\* authentication error, and the socket is closed once teardown has run.
C2_AuthFailureFailsConnect ==
    /\ (fatal = "invalid_password" /\ FirstIsSalt /\ nrecv = 2
           => connectResult = "invalid_password")
    /\ (connectResult = "invalid_password" /\ pc["main"] = "done"
           => socket = "closed")

\* C3: on an established session that only the caller tears down, two
\* disconnect() calls in sequence send exactly one Disconnect datagram, and
\* no call raises.
C3_IdempotentDisconnect ==
    (connectResult = "ok" /\ calls["listener"] = 0 /\ Returned("main") >= 1)
        => /\ Count(sent, clrc.Disconnect) = 1
           /\ pc["main"] # "raised"
           /\ (calls["main"] >= 2 => pc["main"] \in {"d_test", "d_close", "done"})
           /\ ~running

C3_Witness ==
    /\ connectResult = "ok"
    /\ calls["listener"] = 0
    /\ Returned("main") = 2
    /\ Count(sent, clrc.Disconnect) = 1

\* C4: under every interleaving of the caller's and the listener's
\* disconnect() at most one Disconnect datagram is sent and neither call
\* fails.
C4_ConcurrentDisconnectOnce ==
    /\ Count(sent, clrc.Disconnect) <= 1
    /\ \A t \in Threads : pc[t] # "raised"

\* C5: while the session is established (running, socket open), the listener's
\* handling of a receive timeout sends exactly one Pong and leaves the session
\* established: running stays true, the socket open, the listener looping.
C5_KeepAlive ==
    [][(pc["listener"] = "pong" /\ pc'["listener"] # "pong"
            /\ running /\ socket = "open")
          => /\ sent' = Append(sent, <<255, clrc.Pong>>)
             /\ running' /\ socket' = "open"
             /\ pc'["listener"] = "loop"]_vars

\* C6: the session is marked running and its listener started only by
\* receiving LoggedIn.
C6_EstablishedOnlyByLoggedIn ==
    (running \/ pc["listener"] # "none") => Printed("logged_in")

\* C7: a receive timeout in connect() fails it with the timed-out error; one
\* BeginConnection datagram and nothing else has been sent, the session is
\* not running and no listener is started.
C7_HandshakeTimeout ==
    connectResult = "timed_out"
        => /\ sent = << <<255, clrc.BeginConnection, protocol_ver>> >>
           /\ ~running
           /\ pc["listener"] = "none"
           /\ pc["main"] \in {"d_test", "d_close", "done"}

C7_Witness == connectResult = "timed_out" /\ pc["main"] = "done"

\* C8: after a fatal error in the listener, the listener calls disconnect()
\* once, dispatches no further packet, and ends with running false and the
\* socket closed.
C8_ListenerTeardownOnce ==
    /\ calls["listener"] <= 1
    /\ (fatal # "none"
           => /\ pc["listener"] \in {"d_test", "d_clear", "d_send", "d_close",
                                     "done"}
              /\ buf = <<>>)
    /\ (fatal # "none" /\ pc["listener"] = "done"
           => calls["listener"] = 1 /\ ~running /\ socket = "closed")

C8_Witness ==
    /\ fatal = "invalid_password"
    /\ pc["listener"] = "done"
    /\ calls["listener"] = 1
    /\ nrecv = 2

FatalInConnect ==
    connectResult \in {"timed_out", "old_protocol", "banned",
                       "invalid_password", "corrupt_stream", "index_error"}

DisconnectTried == \E t \in Threads : dsend[t] # "none"

\* C9 as stated: every fatal condition, in connect() or in the listener, ends
\* with an attempt to send Disconnect made and the socket released.
C9_EveryFatalNotifies ==
    /\ (FatalInConnect /\ pc["main"] = "done"
           => socket = "closed" /\ DisconnectTried)
    /\ (fatal # "none" /\ pc["listener"] = "done" /\ ~InDisconnect("main")
           => socket = "closed" /\ DisconnectTried)

\* C9 as amended: every fatal condition ends with the socket released; a
\* fatal condition in the listener also has its Disconnect attempt, and a
\* fatal condition inside connect() has none, running being still false.
C9_FatalReleasesSocket ==
    /\ (FatalInConnect /\ pc["main"] = "done"
           => /\ socket = "closed"
              /\ ~DisconnectTried
              /\ Count(sent, clrc.Disconnect) = 0)
    /\ (fatal # "none" /\ pc["listener"] = "done" /\ ~InDisconnect("main")
           => socket = "closed" /\ DisconnectTried)

C9_Witness ==
    /\ connectResult = "banned"
    /\ pc["main"] = "done"
    /\ socket = "closed"

\* C10: no disconnect() call ends by raising: before connect(), on a closed
\* socket, and when sendto fails on the Disconnect datagram, it returns.
C10_TeardownNeverRaises ==
    \A t \in Threads :
        /\ pc[t] # "raised"
        /\ (pc[t] = "done" => Returned(t) = calls[t])
        /\ (dsend[t] \in {"fail", "closed"} => pc[t] \in {"d_close", "done", "d_test"})

C10_Witness ==
    /\ dsend["main"] = "fail"
    /\ pc["main"] = "done"
    /\ Returned("main") = 2

\* C11: once disconnect() has closed the socket, the listener's blocked
\* receive fails with an error that the listener processes as a disconnect
\* (the except clause, then disconnect() and the end of the loop).
C11_CancellationByClose ==
    [][(socket = "closed" /\ pc["listener"] = "blocked"
            /\ pc'["listener"] # "blocked")
          => fatal' = "oserror" /\ pc'["listener"] = "d_test"]_vars

\* C18: no Command datagram is sent before the login is confirmed: whenever a
\* Command has been sent, a LoggedIn packet has been received (dispatched, or
\* read by the listener and about to be dispatched).
C18_CommandAfterLoggedIn ==
    Count(sent, clrc.Command) >= 1
        => \/ Printed("logged_in")
           \/ first = H_encode(<<svrc.LoggedIn>>)
           \/ buf = H_encode(<<svrc.LoggedIn>>)

\* C19: whenever the listener thread has terminated, by leaving its loop or by
\* an exception that ended the thread, running is false.
C19_TerminatedImpliesNotRunning ==
    pc["listener"] \in {"done", "dead"} => ~running

\* A step in which the listener dispatches the datagram it has received
\* (lines 209-211 with their except clauses).
ListenerDispatches == pc["listener"] = "dispatch" /\ pc'["listener"] # "dispatch"

\* The line printed for an opcode that no branch of handle_packet names.
UnknownLine(packet_id) == [kind |-> "unknown", data |-> <<packet_id>>]

\* C13: an unknown opcode received by the listener while the session is
\* established only prints the unknown-opcode diagnostic: no error, no
\* datagram sent, running still true, the socket still open, the listener
\* back at the head of its loop.
C13_UnknownOpcodeNonFatal ==
    [][(ListenerDispatches /\ buf = H_encode(<<99>>)
            /\ running /\ socket = "open")
          => /\ out' = Append(out, UnknownLine(99))
             /\ sent' = sent
             /\ fatal' = fatal
             /\ running' /\ socket' = "open"
             /\ pc'["listener"] = "loop"]_vars

C13_Witness ==
    /\ first = H_encode(<<svrc.LoggedIn>>)
    /\ out = <<LoggedInLine, UnknownLine(99)>>
    /\ sent = <<BeginConnectionPacket>>
    /\ running /\ socket = "open"
    /\ fatal = "none"
    /\ pc["listener"] = "loop"

\* The datagrams carrying one of the three opcodes handle_packet passes over.
IgnoredDatagrams ==
    { H_encode(<<op>>) :
        op \in {svrc.Update, svrc.TabComplete, svrc.TooManyTabCompletes} }

\* C16: Update, TabComplete and TooManyTabCompletes received by the listener
\* while the session is established are consumed silently: nothing printed,
\* no datagram sent, no error, running and the socket unchanged, and the
\* listener back at the head of its loop.
C16_IgnoredOpcodesSilent ==
    [][(ListenerDispatches /\ buf \in IgnoredDatagrams
            /\ running /\ socket = "open")
          => /\ out' = out
             /\ sent' = sent
             /\ fatal' = fatal
             /\ running' /\ socket' = "open"
             /\ pc'["listener"] = "loop"]_vars

C16_Witness ==
    /\ first = H_encode(<<svrc.LoggedIn>>)
    /\ nrecv = 2
    /\ buf = <<>>
    /\ out = <<LoggedInLine>>
    /\ sent = <<BeginConnectionPacket>>
    /\ running /\ socket = "open"
    /\ fatal = "none"
    /\ ntimeouts = 0
    /\ pc["listener"] = "loop"

\* C12: an empty decoded buffer is never silently ignored.  As the first
\* reply it makes connect() fail with the error of the split (data[0]): no
\* opcode is dispatched (nothing printed, nothing sent), running stays false
\* and no listener is started.  In the listener it dispatches nothing and is
\* fatal: the listener goes into disconnect(), and once that has returned the
\* session is not running and the socket is closed.
C12_EmptyBufferFatal ==
    [][/\ (pc["main"] = "c_recv" /\ first' = H_encode(<<>>))
             => /\ connectResult' = "index_error"
                /\ ~running'
                /\ pc'["listener"] = "none"
                /\ out' = out /\ sent' = sent
                /\ pc'["main"] = "d_test"
       /\ (ListenerDispatches /\ buf = H_encode(<<>>))
             => /\ out' = out /\ sent' = sent
                /\ fatal' = "index_error"
                /\ pc'["listener"] = "d_test"
       /\ (fatal' = "index_error" /\ pc'["listener"] = "done")
             => ~running' /\ socket' = "closed"]_vars

C12_Witness ==
    /\ connectResult = "ok"
    /\ fatal = "index_error"
    /\ pc["listener"] = "done"
    /\ dsend["listener"] = "ok"

\* Whether a received datagram decodes to a Salt packet.
IsSalt(raw) == decode(raw) # <<>> /\ decode(raw)[1] = svrc.Salt

\* A step that hands one more Password datagram to the socket.
PasswordSent ==
    /\ Len(sent') = Len(sent) + 1
    /\ OpcodeOf(sent'[Len(sent')]) = clrc.Password

\* A step that dispatches a Salt: the first reply in connect(), or a datagram
\* in the listener.
SaltInConnect == pc["main"] = "c_recv" /\ first' # first /\ IsSalt(first')
SaltInListener == ListenerDispatches /\ IsSalt(buf)

\* The Password datagram that answers the Salt datagram raw: opcode, then the
\* digest of bytes 1..32 of the payload followed by the password's bytes.
PasswordFor(raw) ==
    <<255, clrc.Password>>
        \o md5_hexdigest(SubSeq(decode(raw), 2, 33) \o <<112, 119>>)

\* C14 as stated: a Password is sent only for a Salt received before the
\* login was confirmed.
C14_PasswordOnlyBeforeLogin ==
    [][PasswordSent
          => (SaltInConnect \/ SaltInListener) /\ ~Printed("logged_in")]_vars

\* C14, amended: a Password is sent only in the step that dispatches a
\* received Salt, whatever the state of the session, and a Salt dispatched
\* while the socket is open hands exactly one Password to the socket, its
\* token the digest of the Salt's first 32 bytes followed by the password.
C14_PasswordAnswersSalt ==
    [][/\ PasswordSent => SaltInConnect \/ SaltInListener
       /\ (SaltInConnect /\ socket = "open")
             => sent' = Append(sent, PasswordFor(first'))
       /\ (SaltInListener /\ socket = "open")
             => sent' = Append(sent, PasswordFor(buf))]_vars

C14_Witness ==
    /\ first = H_encode(<<svrc.LoggedIn>>)
    /\ out = <<LoggedInLine>>
    /\ sent = <<BeginConnectionPacket,
                PasswordFor(H_encode(<<svrc.Salt>> \o Salt32 \o <<9>>))>>
    /\ running
    /\ pc["listener"] = "loop"

\* UTF-8 of the two characters of the text payloads.
Utf8Of(c) == IF c = 104 THEN <<104>> ELSE <<195, 169>>

\* The bytes a payload stands for: raw bytes as they are, text as the UTF-8
\* bytes of its characters in order, nothing after them.
PayloadBytes(item) ==
    IF item.t = "bytes" THEN item.v
    ELSE IF item.v = <<>> THEN <<>>
    ELSE IF Len(item.v) = 1 THEN Utf8Of(item.v[1])
    ELSE IF Len(item.v) = 2 THEN Utf8Of(item.v[1]) \o Utf8Of(item.v[2])
    ELSE Utf8Of(item.v[1]) \o Utf8Of(item.v[2]) \o Utf8Of(item.v[3])

\* C15: framing round trip.  The frame built from [opcode, payload] is the
\* opcode as one byte followed by the payload's bytes (text as UTF-8 without
\* terminator, raw bytes unchanged), and decoding and splitting its encoding
\* raises nothing and yields the opcode and exactly the payload's bytes, the
\* empty payload included.
C15_FramingRoundTrip ==
    /\ fwire # <<>>
          => decode(fwire) = <<fin.opcode>> \o PayloadBytes(fin.payload)
    /\ fout # NoResult
          => fout = [err |-> "none", packet_id |-> fin.opcode,
                     packet_data |-> PayloadBytes(fin.payload)]

C15_Witness ==
    /\ fin = [opcode |-> clrc.Command, payload |-> StrItem(<<104, 233>>)]
    /\ fwire = <<255, 54, 104, 195, 169>>
    /\ fout = [err |-> "none", packet_id |-> 54,
               packet_data |-> <<104, 195, 169>>]

\* C17: Disconnect is the last datagram of a session: once a Disconnect has
\* been sent, no Pong, Password or Command datagram is sent after it.
C17_NothingAfterDisconnect ==
    [][(Count(sent, clrc.Disconnect) >= 1 /\ sent' # sent)
          => OpcodeOf(sent'[Len(sent')]) = clrc.Disconnect]_vars

\* C20: once a disconnect() call has completed, with running false and the
\* socket closed, the listener emits no further server message: no step
\* after that prints a line for a received datagram.
C20_NoOutputAfterDisconnect ==
    [][((\E t \in Threads : Returned(t) >= 1)
            /\ ~running /\ socket = "closed")
          => out' = out]_vars

====
